---- MODULE Spec2Model ----
(***************************************************************************)
(* Model of the plant query engine (plotify-pro/plantQueryEngine.js): the  *)
(* tokenizer, the construction of the inverted index and of the field      *)
(* index, and the query operation (full-text stage, filter stage,          *)
(* pagination).                                                            *)
(*                                                                         *)
(* A JavaScript string is a sequence of one-character strings.  undefined  *)
(* and null are the one-element sequences <<"undefined">> and <<"null">>,  *)
(* which no string equals.  An optional numeric argument is the empty set  *)
(* (argument not supplied) or a singleton.  A plain object used as a map   *)
(* is a function from its own keys; a read of a key that is not an own key *)
(* goes to Object.prototype.                                               *)
(***************************************************************************)
EXTENDS Integers, Sequences, FiniteSets, TLC

(***************************************************************************)
(* Bounds of the model.                                                    *)
(***************************************************************************)
\* longest record collection
MaxRecords == 2
\* largest limit and largest offset of a query
MaxPage == 2
\* most filters of a query
MaxFilters == 2
\* longest text handed to the tokenizer in SpecTokenize
MaxLen == 5

(***************************************************************************)
(* Program constants.                                                      *)
(***************************************************************************)
\* query({ ..., limit = 20, ... })
DefaultLimit == 20
\* query({ ..., offset = 0 })
DefaultOffset == 0
\* .filter(t => t.length > 1)
NoiseLength == 1

(***************************************************************************)
(* JavaScript values.                                                      *)
(***************************************************************************)
Undefined == <<"undefined">>
Null == <<"null">>

IsString(v) == v # Undefined /\ v # Null

\* ToBoolean of a string, undefined or null: the empty string is falsy
Truthy(v) == IsString(v) /\ v # <<>>

UpperChars == <<"A","B","C","D","E","F","G","H","I","J","K","L","M",
                "N","O","P","Q","R","S","T","U","V","W","X","Y","Z">>
LowerChars == <<"a","b","c","d","e","f","g","h","i","j","k","l","m",
                "n","o","p","q","r","s","t","u","v","w","x","y","z">>
Digits == {"0","1","2","3","4","5","6","7","8","9"}
Whitespace == {" ", "\t", "\n"}

Range(s) == {s[i] : i \in 1..Len(s)}

\* the class [a-z0-9] of the regular expression in tokenize
AlnumLower == Range(LowerChars) \cup Digits

\* the class [a-z0-9\s]: the characters that replace leaves in place
KeptChars == AlnumLower \cup Whitespace

\* the lower-case letter of every upper-case letter, and the converse
LowerOf ==
    [c \in Range(UpperChars) |->
        LowerChars[CHOOSE i \in 1..Len(UpperChars) : UpperChars[i] = c]]
UpperOf ==
    [c \in Range(LowerChars) |->
        UpperChars[CHOOSE i \in 1..Len(LowerChars) : LowerChars[i] = c]]

ToLowerChar(c) == IF c \in DOMAIN LowerOf THEN LowerOf[c] ELSE c

ToUpperChar(c) == IF c \in DOMAIN UpperOf THEN UpperOf[c] ELSE c

\* String.prototype.toLowerCase
ToLowerCase(s) == [i \in 1..Len(s) |-> ToLowerChar(s[i])]

\* String.prototype.toUpperCase
ToUpperCase(s) == [i \in 1..Len(s) |-> ToUpperChar(s[i])]

(***************************************************************************)
(* tokenize                                                                *)
(***************************************************************************)
\* .replace(/[^a-z0-9\s]/g, " ")
ReplaceNonAlnum(s) ==
    [i \in 1..Len(s) |->
        IF s[i] \in KeptChars THEN s[i] ELSE " "]

\* .split(/\s+/): the pieces between the maximal runs of whitespace; a run
\* at the start or at the end of the text leaves an empty piece there
RECURSIVE SplitFrom(_, _, _, _)
SplitFrom(s, i, cur, acc) ==
    IF i > Len(s) THEN Append(acc, cur)
    ELSE IF s[i] \in Whitespace
         THEN IF i > 1 /\ s[i - 1] \in Whitespace
              THEN SplitFrom(s, i + 1, cur, acc)
              ELSE SplitFrom(s, i + 1, <<>>, Append(acc, cur))
         ELSE SplitFrom(s, i + 1, Append(cur, s[i]), acc)

SplitWhitespace(s) == SplitFrom(s, 1, <<>>, <<>>)

\* IsLongToken with the comparison off by one: t.length >= 1
IsLongTokenOffByOne(t) == Len(t) >= NoiseLength

IsLongToken(t) == Len(t) > NoiseLength

\* .filter(t => t.length > 1)
FilterNoise(pieces) == SelectSeq(pieces, IsLongToken)

tokenize(text) ==
    IF ~Truthy(text) THEN <<>>
    ELSE FilterNoise(SplitWhitespace(ReplaceNonAlnum(ToLowerCase(text))))

(***************************************************************************)
(* Plain objects used as maps.  this.invertedIndex and every               *)
(* this.fieldIndex[field] are object literals, so a read map[key] of a key *)
(* that is not an own key finds the properties of Object.prototype.  The   *)
(* keys of both indexes are lowercased; of the property names of           *)
(* Object.prototype only "constructor" and "__proto__" have no uppercase   *)
(* letter.  Their values are an object and a function: truthy, not a Set.  *)
(***************************************************************************)
S_constructor == <<"c","o","n","s","t","r","u","c","t","o","r">>
S_proto == <<"_","_","p","r","o","t","o","_","_">>

ObjectPrototypeKeys == {S_constructor, S_proto}

\* this.fieldIndex is an object literal too: this.fieldIndex["constructor"]
\* is the function Object whatever the records are.  (The other property
\* names of Object.prototype behave alike; the model has this one.)
InheritedFieldNames == {"constructor"}

S_name == <<"n","a","m","e">>
S_length == <<"l","e","n","g","t","h">>
S_prototype == <<"p","r","o","t","o","t","y","p","e">>

\* the lowercase keys k for which Object[k] is truthy: none is a Set
ObjectFunctionKeys == {S_name, S_length, S_prototype, S_constructor, S_proto}

\* the value read by map[key]: the own posting set, an inherited property
\* of Object.prototype, or undefined
GetProperty(map, key) ==
    IF key \in DOMAIN map THEN [kind |-> "set", ids |-> map[key]]
    ELSE IF key \in ObjectPrototypeKeys THEN [kind |-> "inherited", ids |-> {}]
    ELSE [kind |-> "undefined", ids |-> {}]

(***************************************************************************)
(* Records.                                                                *)
(***************************************************************************)
\* the fields read by _buildIndexes for the full-text index, in its order
SearchableFields ==
    <<"common_name", "scientific_name", "family", "plant_type", "sun_exposure">>

\* the fields of the field index, in the order of _buildIndexes
IndexedFields == <<"plant_id", "family", "plant_type", "scientific_name">>

RecordFields == Range(SearchableFields) \cup Range(IndexedFields)

\* rec[field]: undefined for a field the record does not have
GetField(rec, field) == IF field \in DOMAIN rec THEN rec[field] ELSE Undefined

(***************************************************************************)
(* PlantQueryEngine._buildIndexes                                          *)
(***************************************************************************)
RECURSIVE ConcatTokens(_, _)
\* tokens.concat(tokenize(rec.common_name)) ... (rec.sun_exposure)
ConcatTokens(rec, k) ==
    IF k = 0 THEN <<>>
    ELSE ConcatTokens(rec, k - 1) \o tokenize(GetField(rec, SearchableFields[k]))

\* RecordTerms with the bug of leaving out the last field, sun_exposure
RecordTermsWithoutSunExposure(rec) ==
    Range(ConcatTokens(rec, Len(SearchableFields) - 1))

\* [...new Set(tokens)]: each term of the record once
RecordTerms(rec) == Range(ConcatTokens(rec, Len(SearchableFields)))

\* NormalizeKey with the bug of indexing the raw value: const key = val
NormalizeKeyRaw(val) == val

\* const key = typeof val === "string" ? val.toLowerCase() : val
NormalizeKey(val) == IF IsString(val) THEN ToLowerCase(val) ELSE val

\* the (field, key) entries record rec contributes to the field index
RecordKeys(rec) ==
    {<<IndexedFields[k], NormalizeKey(GetField(rec, IndexedFields[k]))>> :
        k \in {j \in 1..Len(IndexedFields) : Truthy(GetField(rec, IndexedFields[j]))}}

\* map[key].add(i) where map[key] is not the Set this code created: a term
\* or a key that names a property of Object.prototype makes indexing throw
IndexingThrows(rec) ==
    \/ RecordTerms(rec) \cap ObjectPrototypeKeys # {}
    \/ \E fk \in RecordKeys(rec) : fk[2] \in ObjectPrototypeKeys

\* AddTerms with the bug of counting the records from 1:
\* this.invertedIndex[t].add(i + 1)
AddTermsOneBased(inv, rec, i) ==
    LET terms == RecordTerms(rec)
    IN  [t \in DOMAIN inv \cup terms |->
            (IF t \in DOMAIN inv THEN inv[t] ELSE {})
            \cup (IF t \in terms THEN {i + 1} ELSE {})]

\* the inverted index after record rec, ordinal i, is added
AddTerms(inv, rec, i) ==
    LET terms == RecordTerms(rec)
    IN  [t \in DOMAIN inv \cup terms |->
            (IF t \in DOMAIN inv THEN inv[t] ELSE {})
            \cup (IF t \in terms THEN {i} ELSE {})]

\* the field index after record rec, ordinal i, is added
AddKeys(fld, rec, i) ==
    LET keys == RecordKeys(rec)
        fields == {fk[1] : fk \in keys}
    IN  [f \in DOMAIN fld \cup fields |->
            LET old == IF f \in DOMAIN fld THEN fld[f] ELSE << >>
                new == {fk[2] : fk \in {e \in keys : e[1] = f}}
            IN  [key \in DOMAIN old \cup new |->
                    (IF key \in DOMAIN old THEN old[key] ELSE {})
                    \cup (IF key \in new THEN {i} ELSE {})]]

RECURSIVE BuildFrom(_, _, _)
\* this.records.forEach((rec, i) => ...) from ordinal i on; acc is the
\* engine built so far
BuildFrom(recs, i, acc) ==
    IF i >= Len(recs) THEN acc
    ELSE IF IndexingThrows(recs[i + 1])
         THEN [ok |-> FALSE, invertedIndex |-> acc.invertedIndex,
               fieldIndex |-> acc.fieldIndex]
         ELSE BuildFrom(recs, i + 1,
                [ok |-> TRUE,
                 invertedIndex |-> AddTerms(acc.invertedIndex, recs[i + 1], i),
                 fieldIndex |-> AddKeys(acc.fieldIndex, recs[i + 1], i)])

\* this.invertedIndex = {}; this.fieldIndex = {}; this._buildIndexes()
BuildIndexes(recs) ==
    BuildFrom(recs, 0, [ok |-> TRUE, invertedIndex |-> << >>, fieldIndex |-> << >>])

(***************************************************************************)
(* PlantQueryEngine.query                                                  *)
(***************************************************************************)
\* a parameter with a default value: the default when it is not supplied
ParamOrDefault(opt, default) ==
    IF opt = {} THEN default ELSE CHOOSE x \in opt : TRUE

\* new Set(this.records.map((_, i) => i)): a Set iterates in insertion
\* order, so the candidate set is the sequence of its ordinals
AllOrdinals(recs) == [k \in 1..Len(recs) |-> k - 1]

\* tokens.map((t) => this.invertedIndex[t] || new Set())
Postings(inv, tokens) == [k \in 1..Len(tokens) |-> GetProperty(inv, tokens[k])]

\* matches = new Set([...matches, ...s]) for every posting s
Matches(postings) == UNION {postings[k].ids : k \in 1..Len(postings)}

RECURSIVE AscendingSeq(_)
AscendingSeq(ids) ==
    IF ids = {} THEN <<>>
    ELSE LET least == CHOOSE x \in ids : \A y \in ids : x <= y
         IN  <<least>> \o AscendingSeq(ids \ {least})

\* Intersect with the bug of taking the posting set as the new candidate
\* set: candidateIds = new Set(ids)
IntersectReplaces(cands, ids) == AscendingSeq(ids)

\* [...candidateIds].filter((x) => ids.has(x))
Intersect(cands, ids) == SelectSeq(cands, LAMBDA x : x \in ids)

\* FullTextStage with the bug of leaving out the test tokens.length > 0: a
\* phrase without terms matches no record
FullTextStageRejectsNoTerms(cands, inv, q) ==
    IF ~Truthy(q) THEN [ok |-> TRUE, ids |-> cands]
    ELSE LET postings == Postings(inv, tokenize(q))
         IN  IF \E k \in 1..Len(postings) : postings[k].kind = "inherited"
             THEN [ok |-> FALSE, ids |-> <<>>]
             ELSE [ok |-> TRUE, ids |-> Intersect(cands, Matches(postings))]

\* the full-text stage; spreading an inherited property that is no
\* iterable throws a TypeError
FullTextStage(cands, inv, q) ==
    IF ~Truthy(q) THEN [ok |-> TRUE, ids |-> cands]
    ELSE LET tokens == tokenize(q)
             postings == Postings(inv, tokens)
         IN  IF Len(tokens) = 0 THEN [ok |-> TRUE, ids |-> cands]
             ELSE IF \E k \in 1..Len(postings) : postings[k].kind = "inherited"
                  THEN [ok |-> FALSE, ids |-> <<>>]
                  ELSE [ok |-> TRUE, ids |-> Intersect(cands, Matches(postings))]

\* NormalizeFilterValue with the bug of looking the raw value up: let v = value
NormalizeFilterValueRaw(value) == value

\* let v = typeof value === "string" ? value.toLowerCase() : value
NormalizeFilterValue(value) == IF IsString(value) THEN ToLowerCase(value) ELSE value

\* [...candidateIds].filter((idx) => this.records[idx][field] === value)
EqualityScan(cands, recs, field, value) ==
    SelectSeq(cands, LAMBDA idx : GetField(recs[idx + 1], field) = value)

\* one iteration of the loop over Object.entries(filters); ids.has of an
\* inherited property that is no Set throws once a candidate is tested
FilterStep(cands, recs, fld, field, value) ==
    IF field \in DOMAIN fld
    THEN LET ids == GetProperty(fld[field], NormalizeFilterValue(value))
         IN  IF ids.kind = "inherited"
             THEN [ok |-> cands = <<>>, ids |-> <<>>]
             ELSE [ok |-> TRUE, ids |-> Intersect(cands, ids.ids)]
    ELSE IF field \in InheritedFieldNames
         THEN IF NormalizeFilterValue(value) \in ObjectFunctionKeys
              THEN [ok |-> cands = <<>>, ids |-> <<>>]
              ELSE [ok |-> TRUE, ids |-> <<>>]
         ELSE [ok |-> TRUE, ids |-> EqualityScan(cands, recs, field, value)]

RECURSIVE FilterStage(_, _, _, _)
\* for (let [field, value] of Object.entries(filters))
FilterStage(cands, recs, fld, filters) ==
    IF filters = <<>> THEN [ok |-> TRUE, ids |-> cands]
    ELSE LET step == FilterStep(cands, recs, fld, filters[1][1], filters[1][2])
         IN  IF step.ok THEN FilterStage(step.ids, recs, fld, Tail(filters))
             ELSE step

Max(a, b) == IF a >= b THEN a ELSE b
Min(a, b) == IF a <= b THEN a ELSE b

\* Array.prototype.slice(start, end): a negative index counts from the end
Slice(arr, start, end) ==
    LET n == Len(arr)
        from == IF start < 0 THEN Max(n + start, 0) ELSE Min(start, n)
        to == IF end < 0 THEN Max(n + end, 0) ELSE Min(end, n)
    IN  IF from < to THEN SubSeq(arr, from + 1, to) ELSE <<>>

\* results.slice(offset, offset + limit)
Paginate(results, limit, offset) == Slice(results, offset, offset + limit)

\* the candidate set at the end of the filter stage
Candidates(recs, inv, fld, q, filters) ==
    LET text == FullTextStage(AllOrdinals(recs), inv, q)
    IN  IF text.ok THEN FilterStage(text.ids, recs, fld, filters) ELSE text

\* what a call of query does: it returns the page of records, or throws
QueryOutcome(recs, inv, fld, args) ==
    LET cands == Candidates(recs, inv, fld, args.q, args.filters)
        limit == ParamOrDefault(args.limit, DefaultLimit)
        offset == ParamOrDefault(args.offset, DefaultOffset)
    IN  IF cands.ok
        THEN [status |-> "returned",
              candidateIds |-> cands.ids,
              results |-> Paginate([k \in 1..Len(cands.ids) |->
                                        recs[cands.ids[k] + 1]], limit, offset)]
        ELSE [status |-> "TypeError", candidateIds |-> <<>>, results |-> <<>>]

(***************************************************************************)
(* The inputs of the model: strings, records, collections and queries.     *)
(***************************************************************************)
S_Abelia == <<"A","b","e","l","i","a">>
S_Abies == <<"A","b","i","e","s">>
S_fir == <<"f","i","r">>
S_FirFir == <<"F","i","r"," ","f","i","r">>
S_Rosaceae == <<"R","o","s","a","c","e","a","e">>
S_1 == <<"1">>
S_2 == <<"2">>
S_Sun == <<"S","u","n">>
S_ab == <<"a","b">>
S_a_b == <<"a","-","b">>
S_FirConstructor == <<"f","i","r"," ","c","o","n","s","t","r","u","c","t","o","r">>
S_FirAbelia == <<"F","i","r",","," ","A","b","e","l","i","a">>

Plant(id, common, scientific, fam, sun) ==
    [f \in RecordFields |->
        CASE f = "plant_id" -> id
          [] f = "common_name" -> common
          [] f = "scientific_name" -> scientific
          [] f = "family" -> fam
          [] f = "sun_exposure" -> sun
          [] OTHER -> Undefined]

PlantPool ==
    { Plant(Undefined, Undefined, S_Abelia, <<>>, Undefined),
      Plant(Undefined, S_fir, S_Abies, Undefined, Undefined),
      Plant(S_1, Undefined, Undefined, S_Rosaceae, S_Sun),
      Plant(S_2, S_FirFir, Undefined, S_Rosaceae, Undefined),
      Plant(Undefined, S_constructor, Undefined, Undefined, Undefined) }

\* the record collections: up to MaxRecords distinct records, in any order
Collections ==
    UNION {{c \in [1..n -> PlantPool] : \A i, j \in 1..n : c[i] = c[j] => i = j} :
            n \in 0..MaxRecords}

Phrases ==
    {Null, <<>>, S_a_b, S_fir, S_ab, S_FirAbelia, S_constructor, S_FirConstructor}

FilterPairs ==
    { <<"family", S_Rosaceae>>, <<"family", ToUpperCase(S_Rosaceae)>>,
      <<"family", ToLowerCase(S_Rosaceae)>>,
      <<"family", <<>>>>, <<"family", S_constructor>>,
      <<"plant_id", S_1>>,
      <<"sun_exposure", S_Sun>>, <<"sun_exposure", ToLowerCase(S_Sun)>> }

\* the filters objects: Object.entries lists the own keys in insertion
\* order, and an object has a key once
FilterMaps ==
    UNION {{m \in [1..n -> FilterPairs] :
                \A i, j \in 1..n : m[i][1] = m[j][1] => i = j} :
            n \in 0..MaxFilters}

\* limit and offset: both supplied, or both left to their defaults
Pages ==
    {[limit |-> {l}, offset |-> {o}] : l \in (-1)..MaxPage, o \in (-1)..MaxPage}
    \cup {[limit |-> {}, offset |-> {}]}

QueryArgs ==
    {[q |-> q, filters |-> m, limit |-> p.limit, offset |-> p.offset] :
        q \in Phrases, m \in FilterMaps, p \in Pages}

\* what loadEngine finds at its path: a file it cannot read, a text that
\* is no JSON, the JSON of a value that is no array, or the JSON of an
\* array of records
File(kind, data) == [kind |-> kind, data |-> data]

Files ==
    {File("array", c) : c \in Collections}
    \cup {File("ENOENT", <<>>), File("SyntaxError", <<>>), File("notArray", <<>>)}

(***************************************************************************)
(* The values of the HTTP layer (server.js).                               *)
(***************************************************************************)
MaxHandlers == 2
MaxProjects == 2
RequestDefaultLimit == 20
RequestDefaultOffset == 0

\* a JavaScript number of the request layer: an integer or NaN
Num(n) == [nan |-> FALSE, int |-> n]
NaN == [nan |-> TRUE, int |-> 0]

DigitChars == <<"0","1","2","3","4","5","6","7","8","9">>
DigitValue(c) == (CHOOSE d \in 1..Len(DigitChars) : DigitChars[d] = c) - 1

RECURSIVE SkipWhitespace(_)
SkipWhitespace(s) ==
    IF s # <<>> /\ s[1] \in Whitespace THEN SkipWhitespace(Tail(s)) ELSE s

RECURSIVE DigitPrefix(_)
\* the longest prefix of s that is made of decimal digits
DigitPrefix(s) ==
    IF s # <<>> /\ s[1] \in Digits THEN <<s[1]>> \o DigitPrefix(Tail(s)) ELSE <<>>

RECURSIVE DecimalValue(_)
DecimalValue(ds) ==
    IF ds = <<>> THEN 0
    ELSE 10 * DecimalValue(SubSeq(ds, 1, Len(ds) - 1)) + DigitValue(ds[Len(ds)])

\* parseInt(string) of a string without the prefix 0x: leading white space
\* is skipped, a sign is read, then the longest run of decimal digits; NaN
\* when there is no digit
parseInt(string) ==
    LET s == SkipWhitespace(string)
        signed == s # <<>> /\ s[1] \in {"+", "-"}
        ds == DigitPrefix(IF signed THEN Tail(s) ELSE s)
    IN  IF ds = <<>> THEN NaN
        ELSE IF signed /\ s[1] = "-" THEN Num(0 - DecimalValue(ds))
        ELSE Num(DecimalValue(ds))

\* the query string of a GET /q request
RawQ(q, plant_id, family, plant_type, scientific_name, limit, offset) ==
    [q |-> q, plant_id |-> plant_id, family |-> family, plant_type |-> plant_type,
     scientific_name |-> scientific_name, limit |-> limit, offset |-> offset]

NoRaw == RawQ(Undefined, Undefined, Undefined, Undefined, Undefined, Undefined, Undefined)

S_minus1 == <<"-","1">>
S_0 == <<"0">>
S_1x == <<" ","1","x">>
S_x == <<"x">>

\* the GET /q requests of the model
QRequests ==
    { NoRaw,
      RawQ(S_fir, Undefined, Undefined, Undefined, Undefined, S_1, Undefined),
      RawQ(S_fir, Undefined, Undefined, Undefined, Undefined, S_minus1, S_0),
      RawQ(Undefined, Undefined, S_Rosaceae, Undefined, Undefined, S_x, Undefined),
      RawQ(Undefined, S_1, ToUpperCase(S_Rosaceae), Undefined, Undefined, <<>>, S_1x),
      RawQ(Undefined, Undefined, Undefined, Undefined, S_Abies, S_2, S_minus1),
      RawQ(S_constructor, Undefined, Undefined, Undefined, Undefined, Undefined, Undefined),
      RawQ(<<>>, <<>>, <<>>, Undefined, Undefined, S_0, S_x) }

\* what the model answers to the prompt of POST /search: a text that is no
\* JSON of an object, or the plantCharacteristics of the object
LlmAnswers ==
    { [parses |-> FALSE, plantCharacteristics |-> Undefined],
      [parses |-> TRUE, plantCharacteristics |-> Undefined],
      [parses |-> TRUE, plantCharacteristics |-> <<>>],
      [parses |-> TRUE, plantCharacteristics |-> S_fir],
      [parses |-> TRUE, plantCharacteristics |-> S_constructor] }

\* the arguments a handler passes to engine.query: limit and offset are
\* absent ({}) or a number
Passed(q, filters, limit, offset) ==
    [q |-> q, filters |-> filters, limit |-> limit, offset |-> offset]

NoPassed == Passed(Undefined, <<>>, {}, {})

Handlers == 1..MaxHandlers

\* a handler: its route, where it is, the query string of GET /q, whether
\* it has called engine.query, with what, and which handlers were then
\* waiting for the model's answer, and its response (status 0: none yet)
Handler(route, state, raw, called, passed, during, status, results) ==
    [route |-> route, state |-> state, raw |-> raw, called |-> called,
     passed |-> passed, during |-> during, status |-> status, results |-> results]

IdleHandler == Handler("none", "idle", NoRaw, FALSE, NoPassed, {}, 0, <<>>)

\* the catalog files of the behaviours of the server
Fir == Plant(Undefined, S_fir, S_Abies, Undefined, Undefined)
Rose == Plant(S_1, Undefined, Undefined, S_Rosaceae, S_Sun)
Unindexable == Plant(Undefined, S_constructor, Undefined, Undefined, Undefined)

ServerFiles ==
    { File("array", <<Fir, Rose>>), File("array", <<>>),
      File("array", <<Fir, Unindexable>>),
      File("ENOENT", <<>>), File("SyntaxError", <<>>), File("notArray", <<>>) }

\* GET /api/users/projects: the users, the projects and the users bin
UserIds == {"alice", "bob"}
NoUser == ""
ProjectIds == {"p1", "p2"}

ProjectLists ==
    UNION {{l \in [1..n -> ProjectIds] : \A i, j \in 1..n : l[i] = l[j] => i = j} :
            n \in 0..MaxProjects}

\* usersData.record: the owned projects of the users that the bin has
UsersBins ==
    UNION {[us -> ProjectLists] : us \in {{}, {"alice"}, {"alice", "bob"}}}

\* the request: its Authorization header and its userId query parameter
ProjectsRequests ==
    {[header |-> h, tokenUser |-> t, queryUser |-> u] :
        h \in {"absent", "bearerInvalid"}, t \in {NoUser}, u \in UserIds \cup {NoUser}}
    \cup {[header |-> "bearerValid", tokenUser |-> t, queryUser |-> NoUser] :
            t \in UserIds}

\* the handler: where it is, the user it serves, the record of the users
\* bin, the projects still to fetch and those fetched, and its response
\* (status 0: none)
ProjectsHandler(at, userId, record, remaining, projects, status, body) ==
    [pc |-> at, userId |-> userId, record |-> record, remaining |-> remaining,
     projects |-> projects, status |-> status, body |-> body]

IdleProjects == ProjectsHandler("idle", NoUser, << >>, <<>>, <<>>, 0, <<>>)

(***************************************************************************)
(* The values of the routes of the project bins and of the document store. *)
(***************************************************************************)
\* the users whose token verifies: carol is no key of the users bin
TokenUsers == UserIds \cup {"carol"}

\* the ids the store gives to the bins it creates, in turn
NewBinIds == <<"p2", "p3">>

\* the store: the record of the users bin (the owned projects of each
\* user), the project bins that exist, and how many bins it has created
Store(users, bins, created) == [users |-> users, bins |-> bins, created |-> created]

InitialStore ==
    Store([u \in UserIds |-> IF u = "alice" THEN <<"p1">> ELSE <<>>], {"p1"}, 0)

\* the two requests that run at the same time
StoreHandlers == {"a", "b"}

\* the Authorization header of a request: none, one that is no Bearer
\* header, a Bearer token that jwt.verify rejects, or a Bearer token of a
\* user
StoreHeaders == {"absent", "notBearer", "bearerInvalid", "bearerValid"}

\* a request: its route, its header, the user of its token and the
\* project id of its path (none for POST /users/projects)
StoreRequest(route, header, user, project) ==
    [route |-> route, header |-> header, user |-> user, project |-> project]

StoreRequests ==
    {StoreRequest(r, h, NoUser, IF r = "POST" THEN "" ELSE "p1") :
        r \in {"POST", "DELETE", "PUT", "GET"},
        h \in StoreHeaders \ {"bearerValid"}}
    \cup {StoreRequest("POST", "bearerValid", u, "") : u \in TokenUsers}
    \cup {StoreRequest("DELETE", "bearerValid", u, "p1") : u \in TokenUsers}
    \cup {StoreRequest("DELETE", "bearerValid", "alice", "p9"),
          StoreRequest("PUT", "bearerValid", "alice", "p1"),
          StoreRequest("GET", "bearerValid", "bob", "p1")}

\* a handler: its request, the project id it works on, where it is, the
\* fetches it has made, the ownedProjects of its updatedUserData, the users object of
\* updateUserData, whether updateUserData has returned, and the status of
\* its response (0: none yet)
StoreHandler(req, project, at, calls, owned, users, wrote, status) ==
    [req |-> req, project |-> project, pc |-> at, calls |-> calls, owned |-> owned,
     users |-> users, wrote |-> wrote, status |-> status]

NoRequest == StoreRequest("none", "absent", NoUser, "")

IdleStoreHandler == StoreHandler(NoRequest, "", "idle", 0, <<>>, << >>, FALSE, 0)

\* what a fetch gives: a response that is ok, one that is not, or a
\* rejected promise
FetchResults == {"ok", "notOk", "rejects"}

(***************************************************************************)
(* State.                                                                  *)
(***************************************************************************)
VARIABLES
    pc,             \* "loading", "ready" (an engine exists) or "failed"
    records,        \* this.records
    invertedIndex,  \* this.invertedIndex
    fieldIndex,     \* this.fieldIndex
    call,           \* the arguments of the latest call of query
    outcome,        \* what the latest call of query did
    memo,           \* an earlier call of query and what it did
    text,           \* the argument of tokenize
    tokens,         \* what tokenize returned
    builds,         \* how many times the constructor has run _buildIndexes
    listening,      \* app.listen has been called
    handlers,       \* the requests of GET /q and POST /search, by handler
    projectsReq,    \* the request of GET /api/users/projects
    store,          \* the external document store: the users bin and the project bins
    storeReqs       \* the requests of the routes that write or read a project bin

vars ==
    <<pc, records, invertedIndex, fieldIndex, call, outcome, memo, text, tokens,
      builds, listening, handlers, projectsReq, store, storeReqs>>

\* the state of the HTTP layer
httpVars == <<listening, handlers, projectsReq, store, storeReqs>>

NoArgs == [q |-> Null, filters |-> <<>>, limit |-> {}, offset |-> {}]
NoOutcome == [status |-> "none", candidateIds |-> <<>>, results |-> <<>>]

Init ==
    /\ pc = "loading"
    /\ records = <<>>
    /\ invertedIndex = << >>
    /\ fieldIndex = << >>
    /\ call = NoArgs
    /\ outcome = NoOutcome
    /\ memo = [call |-> NoArgs, outcome |-> NoOutcome]
    /\ text = Undefined
    /\ tokens = <<>>
    /\ builds = 0
    /\ listening = FALSE
    /\ handlers = [h \in Handlers |-> IdleHandler]
    /\ projectsReq = IdleProjects
    /\ store = InitialStore
    /\ storeReqs = [s \in StoreHandlers |-> IdleStoreHandler]

\* const engine = loadEngine(path), at the top level of server.js:
\* fs.readFileSync throws for a file it cannot read and JSON.parse for a
\* text that is no JSON; new PlantQueryEngine(data) builds both indexes
\* before it returns, and throws when data has no forEach or when indexing
\* a record throws. An exception leaves loadEngine and the module: no
\* engine is assigned, and the process ends
LoadEngine(file) ==
    /\ pc = "loading"
    /\ LET built == BuildIndexes(file.data)
       IN  IF file.kind = "array" /\ built.ok
           THEN /\ pc' = "ready"
                /\ records' = file.data
                /\ invertedIndex' = built.invertedIndex
                /\ fieldIndex' = built.fieldIndex
           ELSE /\ pc' = "failed"
                /\ UNCHANGED <<records, invertedIndex, fieldIndex>>
    /\ builds' = IF file.kind \in {"array", "notArray"} THEN builds + 1 ELSE builds
    /\ UNCHANGED <<call, outcome, memo, text, tokens, httpVars>>

\* Query with the bug of collecting the matches in the posting set of the
\* first term of the phrase, instead of in a new Set: matches = postings[0]
QueryAliasingPostings(args) ==
    /\ pc = "ready"
    /\ call' = args
    /\ outcome' = QueryOutcome(records, invertedIndex, fieldIndex, args)
    /\ invertedIndex' =
           LET terms == tokenize(args.q)
               postings == Postings(invertedIndex, terms)
           IN  IF /\ terms # <<>>
                  /\ \A k \in 1..Len(postings) : postings[k].kind # "inherited"
                  /\ terms[1] \in DOMAIN invertedIndex
               THEN [invertedIndex EXCEPT ![terms[1]] = Matches(postings)]
               ELSE invertedIndex
    /\ UNCHANGED <<pc, records, fieldIndex, text, tokens, builds>>

\* Query with the bug of storing the empty posting set of an unknown term:
\* this.invertedIndex[t] ||= new Set()
QueryAddingKeys(args) ==
    /\ pc = "ready"
    /\ call' = args
    /\ outcome' = QueryOutcome(records, invertedIndex, fieldIndex, args)
    /\ invertedIndex' =
           LET terms == IF Truthy(args.q) THEN Range(tokenize(args.q)) ELSE {}
               unknown == {t \in terms : GetProperty(invertedIndex, t).kind = "undefined"}
           IN  [t \in DOMAIN invertedIndex \cup unknown |->
                   IF t \in DOMAIN invertedIndex THEN invertedIndex[t] ELSE {}]
    /\ UNCHANGED <<pc, records, fieldIndex, text, tokens, builds>>

\* Query with the bug of keeping the candidate set in the engine between
\* calls: this.candidateIds is narrowed by every call and never reset
QueryKeepingCandidates(args) ==
    /\ pc = "ready"
    /\ call' = args
    /\ outcome' =
           LET alone == QueryOutcome(records, invertedIndex, fieldIndex, args)
               kept == Intersect(alone.candidateIds, Range(outcome.candidateIds))
           IN  IF outcome.status = "returned" /\ alone.status = "returned"
               THEN [status |-> "returned",
                     candidateIds |-> kept,
                     results |-> Paginate([k \in 1..Len(kept) |-> records[kept[k] + 1]],
                                          ParamOrDefault(args.limit, DefaultLimit),
                                          ParamOrDefault(args.offset, DefaultOffset))]
               ELSE alone
    /\ UNCHANGED <<pc, records, invertedIndex, fieldIndex, text, tokens, builds>>

\* engine.query(args): reads the records and the indexes, writes nothing
Query(args) ==
    /\ pc = "ready"
    /\ call' = args
    /\ outcome' = QueryOutcome(records, invertedIndex, fieldIndex, args)
    /\ UNCHANGED <<pc, records, invertedIndex, fieldIndex, text, tokens, builds>>

\* one call of query on a new engine
FirstQuery ==
    /\ outcome.status = "none"
    /\ \E args \in QueryArgs : Query(args)
    /\ UNCHANGED <<memo, httpVars>>

NextQuery ==
    \/ \E file \in Files : LoadEngine(file)
    \/ FirstQuery

SpecQuery == Init /\ [][NextQuery]_vars

(***************************************************************************)
(* Any number of calls of query on one engine.                             *)
(***************************************************************************)
Args(q, filters, limit, offset) ==
    [q |-> q, filters |-> filters, limit |-> limit, offset |-> offset]

\* the requests of the behaviours with several calls
Requests ==
    { Args(Null, <<>>, {}, {}),
      Args(S_fir, <<>>, {}, {}),
      Args(S_FirAbelia, <<>>, {}, {}),
      Args(S_ab, <<>>, {}, {}),
      Args(S_constructor, <<>>, {}, {}),
      Args(Null, << <<"family", S_Rosaceae>> >>, {1}, {0}),
      Args(Null, << <<"family", S_Rosaceae>> >>, {1}, {1}),
      Args(Null, << <<"family", <<>>>> >>, {}, {}),
      Args(S_fir, << <<"family", ToUpperCase(S_Rosaceae)>> >>, {MaxPage}, {0}),
      Args(Null, << <<"sun_exposure", S_Sun>>, <<"plant_id", S_1>> >>, {}, {}) }

\* a call of query; the observer may remember the call before it
Request(args) ==
    /\ Query(args)
    /\ memo' \in {memo} \cup
                 (IF outcome.status = "none" THEN {}
                  ELSE {[call |-> call, outcome |-> outcome]})
    /\ UNCHANGED httpVars

Next ==
    \/ \E file \in Files : LoadEngine(file)
    \/ \E args \in Requests : Request(args)

Spec == Init /\ [][Next]_vars

(***************************************************************************)
(* The server: startup, GET /q and POST /search.                           *)
(***************************************************************************)
\* Listen with the bug of starting the listener before the engine is
\* loaded: app.listen(...) above const engine = loadEngine(...)
ListenBeforeLoad ==
    /\ pc = "loading"
    /\ ~listening
    /\ listening' = TRUE
    /\ UNCHANGED <<pc, records, invertedIndex, fieldIndex, call, outcome, memo,
                   text, tokens, builds, handlers, projectsReq, store, storeReqs>>

\* Listen with the bug of catching the exception of loadEngine and going
\* on: try { engine = loadEngine(...) } catch (e) { console.error(e) }
ListenAfterFailure ==
    /\ pc \in {"ready", "failed"}
    /\ ~listening
    /\ listening' = TRUE
    /\ UNCHANGED <<pc, records, invertedIndex, fieldIndex, call, outcome, memo,
                   text, tokens, builds, handlers, projectsReq, store, storeReqs>>

\* app.listen(PORT, ...): the last statement of server.js, reached when
\* loadEngine has returned an engine
Listen ==
    /\ pc = "ready"
    /\ ~listening
    /\ listening' = TRUE
    /\ UNCHANGED <<pc, records, invertedIndex, fieldIndex, call, outcome, memo,
                   text, tokens, builds, handlers, projectsReq, store, storeReqs>>

\* if (plant_id) filters["plant_id"] = plant_id; ... for the four
\* parameters in turn: the filters object has the truthy ones, in this
\* order
QFilters(raw) ==
    LET pairs == << <<"plant_id", raw.plant_id>>, <<"family", raw.family>>,
                    <<"plant_type", raw.plant_type>>,
                    <<"scientific_name", raw.scientific_name>> >>
    IN  SelectSeq(pairs, LAMBDA pair : Truthy(pair[2]))

\* limit ? parseInt(limit) : 20 and offset ? parseInt(offset) : 0
QPageParam(raw, default) == IF Truthy(raw) THEN parseInt(raw) ELSE Num(default)

\* engine.query({ q, filters, limit: ..., offset: ... }) of GET /q
QPassed(raw) ==
    Passed(raw.q, QFilters(raw),
           {QPageParam(raw.limit, RequestDefaultLimit)},
           {QPageParam(raw.offset, RequestDefaultOffset)})

\* the call of query for the arguments a handler passes: an undefined q
\* takes the default null. results.slice(offset, offset + limit) reads a
\* NaN bound as 0, and offset + limit is NaN when either is: the slice is
\* that of limit 0, from offset 0 when offset is NaN
EngineArgs(passed) ==
    LET nan == \E n \in passed.limit \cup passed.offset : n.nan
        page(opt) == {IF nan THEN 0 ELSE n.int : n \in opt}
    IN  Args(IF passed.q = Undefined THEN Null ELSE passed.q,
             passed.filters,
             IF nan THEN {0} ELSE page(passed.limit),
             {IF n.nan THEN 0 ELSE n.int : n \in passed.offset})

\* the handlers that wait for the model's answer
Awaiting == {k \in Handlers : handlers[k].state = "awaiting"}

\* app.get("/q", (req, res) => ...): one synchronous handler; an exception
\* of engine.query reaches the error handler of express, which answers 500
HandleQ(h, raw) ==
    /\ listening
    /\ handlers[h].state = "idle"
    /\ Query(EngineArgs(QPassed(raw)))
    /\ handlers' = [handlers EXCEPT ![h] =
           Handler("/q", "responded", raw, TRUE, QPassed(raw), Awaiting,
                   IF outcome'.status = "returned" THEN 200 ELSE 500,
                   outcome'.results)]
    /\ UNCHANGED <<memo, listening, projectsReq, store, storeReqs>>

\* app.post('/search', ...) up to await model.generateContent(...): a body
\* without query or context is answered 400
StartSearch(h, bodyOk) ==
    /\ listening
    /\ handlers[h].state = "idle"
    /\ handlers' = [handlers EXCEPT ![h] =
           IF bodyOk
           THEN Handler("/search", "awaiting", NoRaw, FALSE, NoPassed, {}, 0, <<>>)
           ELSE Handler("/search", "responded", NoRaw, FALSE, NoPassed, {}, 400, <<>>)]
    /\ UNCHANGED <<pc, records, invertedIndex, fieldIndex, call, outcome, memo,
                   text, tokens, builds, listening, projectsReq, store, storeReqs>>

\* engine.query({ q: plantCharacteristics }) of POST /search
SearchPassed(plantCharacteristics) == Passed(plantCharacteristics, <<>>, {}, {})

\* app.post('/search', ...) from the model's answer on: an answer that
\* does not parse is caught and answered 500; without plantCharacteristics
\* the answer is 200 with no plants; otherwise the engine is asked, and an
\* exception of engine.query is caught and answered 500
FinishSearch(h, answer) ==
    /\ handlers[h].state = "awaiting"
    /\ IF answer.parses /\ Truthy(answer.plantCharacteristics)
       THEN /\ Query(EngineArgs(SearchPassed(answer.plantCharacteristics)))
            /\ handlers' = [handlers EXCEPT ![h] =
                   Handler("/search", "responded", NoRaw, TRUE,
                           SearchPassed(answer.plantCharacteristics),
                           Awaiting \ {h},
                           IF outcome'.status = "returned" THEN 200 ELSE 500,
                           outcome'.results)]
       ELSE /\ handlers' = [handlers EXCEPT ![h] =
                   Handler("/search", "responded", NoRaw, FALSE, NoPassed, {},
                           IF answer.parses THEN 200 ELSE 500, <<>>)]
            /\ UNCHANGED <<pc, records, invertedIndex, fieldIndex, call, outcome,
                           text, tokens, builds>>
    /\ UNCHANGED <<memo, listening, projectsReq, store, storeReqs>>

NextServer ==
    \/ \E file \in ServerFiles : LoadEngine(file)
    \/ Listen
    \/ \E h \in Handlers, raw \in QRequests : HandleQ(h, raw)
    \/ \E h \in Handlers, bodyOk \in BOOLEAN : StartSearch(h, bodyOk)
    \/ \E h \in Handlers, answer \in LlmAnswers : FinishSearch(h, answer)

SpecServer == Init /\ [][NextServer]_vars

(***************************************************************************)
(* The server: GET /api/users/projects.                                    *)
(***************************************************************************)
\* what the fetch of the users bin gives: a rejected promise, a response
\* that is not ok, a body without record, or the record of the bin
UsersFetches ==
    {[kind |-> k, record |-> << >>] : k \in {"rejects", "notOk", "noRecord"}}
    \cup {[kind |-> "ok", record |-> r] : r \in UsersBins}

\* what the fetch of one project gives
ProjectFetches == {"ok", "notOk", "rejects"}

\* app.get('/api/users/projects', ...) up to await fetch(usersBinUrl): a
\* Bearer token that does not verify is answered 401; the user id is the
\* one of the token, or else the userId query parameter; no user id is
\* answered 401 and no JSONBIN_API_KEY 500
ProjectsRequest(req, configured) ==
    /\ listening
    /\ projectsReq.pc = "idle"
    /\ LET userId == IF req.header = "bearerValid" /\ req.tokenUser # NoUser
                     THEN req.tokenUser ELSE req.queryUser
       IN  projectsReq' =
               IF req.header = "bearerInvalid"
               THEN ProjectsHandler("returned", NoUser, << >>, <<>>, <<>>, 401, <<>>)
               ELSE IF userId = NoUser
               THEN ProjectsHandler("returned", NoUser, << >>, <<>>, <<>>, 401, <<>>)
               ELSE IF ~configured
               THEN ProjectsHandler("returned", userId, << >>, <<>>, <<>>, 500, <<>>)
               ELSE ProjectsHandler("fetchingUsers", userId, << >>, <<>>, <<>>, 0, <<>>)
    /\ UNCHANGED <<pc, records, invertedIndex, fieldIndex, call, outcome, memo,
                   text, tokens, builds, listening, handlers, store, storeReqs>>

\* from the answer of the users bin to the next await: an error is caught
\* and answered 500; for a user id that is no key of the record the
\* handler executes return [] and sends nothing; otherwise it starts to
\* fetch the owned projects, and answers at once when there are none
UsersFetched(result) ==
    /\ projectsReq.pc = "fetchingUsers"
    /\ LET userId == projectsReq.userId
       IN  projectsReq' =
               IF result.kind # "ok"
               THEN ProjectsHandler("returned", userId, << >>, <<>>, <<>>, 500, <<>>)
               ELSE IF userId \notin DOMAIN result.record
               THEN ProjectsHandler("returned", userId, result.record, <<>>, <<>>, 0, <<>>)
               ELSE IF result.record[userId] = <<>>
               THEN ProjectsHandler("returned", userId, result.record, <<>>, <<>>, 200, <<>>)
               ELSE ProjectsHandler("fetchingProjects", userId, result.record,
                                    result.record[userId], <<>>, 0, <<>>)
    /\ UNCHANGED <<pc, records, invertedIndex, fieldIndex, call, outcome, memo,
                   text, tokens, builds, listening, handlers, store, storeReqs>>

\* one iteration of for (const projectId of ownedProjects): a project
\* that is fetched is pushed, one that is not is skipped; after the last
\* the handler sends res.json(projects)
ProjectFetched(result) ==
    /\ projectsReq.pc = "fetchingProjects"
    /\ LET fetched == IF result = "ok"
                      THEN Append(projectsReq.projects, Head(projectsReq.remaining))
                      ELSE projectsReq.projects
           rest == Tail(projectsReq.remaining)
       IN  projectsReq' =
               IF rest = <<>>
               THEN ProjectsHandler("returned", projectsReq.userId, projectsReq.record,
                                    <<>>, fetched, 200, fetched)
               ELSE ProjectsHandler("fetchingProjects", projectsReq.userId,
                                    projectsReq.record, rest, fetched, 0, <<>>)
    /\ UNCHANGED <<pc, records, invertedIndex, fieldIndex, call, outcome, memo,
                   text, tokens, builds, listening, handlers, store, storeReqs>>

\* the steps that follow an await: the promise is settled in the end, and
\* the event loop then runs the rest of the handler
ProjectsContinues ==
    \/ \E result \in UsersFetches : UsersFetched(result)
    \/ \E result \in ProjectFetches : ProjectFetched(result)

NextProjects ==
    \/ \E file \in ServerFiles : LoadEngine(file)
    \/ Listen
    \/ \E req \in ProjectsRequests, configured \in BOOLEAN : ProjectsRequest(req, configured)
    \/ \E result \in UsersFetches : UsersFetched(result)
    \/ \E result \in ProjectFetches : ProjectFetched(result)

SpecProjects == Init /\ [][NextProjects]_vars /\ WF_vars(ProjectsContinues)

(***************************************************************************)
(* The server: POST /users/projects, DELETE and PUT /users/projects/:id,   *)
(* GET /api/users/projects/:id, and the document store behind them.        *)
(***************************************************************************)
\* authHeader && authHeader.startsWith('Bearer ')
HasBearer(header) == header \in {"bearerInvalid", "bearerValid"}

\* TokenVerifies with the bug of reading the token without verifying it:
\* jwt.decode(token) in the place of jwt.verify(token, jwtSecret)
TokenDecodedOnly(header) == TRUE

\* verifyToken(token) returns: jwt.verify accepts the token
TokenVerifies(header) == header = "bearerValid"

\* what a step of these handlers leaves alone
StoreFrame ==
    UNCHANGED <<pc, records, invertedIndex, fieldIndex, call, outcome, memo,
                text, tokens, builds, listening, handlers, projectsReq>>

\* the handler after a step: at its next await with one more fetch made,
\* or returned with a response
Fetching(hd, at) == [hd EXCEPT !.pc = at, !.calls = hd.calls + 1]
Responded(hd, status) == [hd EXCEPT !.pc = "returned", !.status = status]

\* the first lines of the four handlers, up to the first fetch: without a
\* Bearer header, or with a token that verifyToken rejects, the response
\* is 401 and the handler returns; otherwise it makes its first fetch
StartStoreRequest(s, req, at) ==
    /\ listening
    /\ storeReqs[s].pc = "idle"
    /\ storeReqs' = [storeReqs EXCEPT ![s] =
           IF HasBearer(req.header) /\ TokenVerifies(req.header)
           THEN StoreHandler(req, req.project, at, 1, <<>>, << >>, FALSE, 0)
           ELSE StoreHandler(req, req.project, "returned", 0, <<>>, << >>, FALSE, 401)]
    /\ UNCHANGED store
    /\ StoreFrame

\* app.post('/users/projects', ...) up to await fetch(.../b, POST)
PostProject(s, req) == req.route = "POST" /\ StartStoreRequest(s, req, "creatingBin")

\* app.delete('/users/projects/:id', ...) up to await fetch(.../b/id, DELETE)
DeleteProject(s, req) == req.route = "DELETE" /\ StartStoreRequest(s, req, "deletingBin")

\* app.put('/users/projects/:id', ...) up to await fetch(.../b/id, PUT)
PutProject(s, req) == req.route = "PUT" /\ StartStoreRequest(s, req, "puttingProject")

\* app.get('/api/users/projects/:id', ...) up to await fetch(.../b/id/latest)
GetProject(s, req) == req.route = "GET" /\ StartStoreRequest(s, req, "gettingProject")

\* POST /users/projects from the answer to the creation of the bin: the
\* store has made a bin with a new id, and the handler puts the project
\* with its id into it; a creation that failed is answered 500
BinCreated(s, result) ==
    /\ storeReqs[s].pc = "creatingBin"
    /\ store.created < Len(NewBinIds)
    /\ LET hd == storeReqs[s]
           id == NewBinIds[store.created + 1]
       IN  IF result = "ok"
           THEN /\ store' = [store EXCEPT !.bins = @ \cup {id}, !.created = @ + 1]
                /\ storeReqs' = [storeReqs EXCEPT ![s] =
                       Fetching([hd EXCEPT !.project = id], "puttingId")]
           ELSE /\ UNCHANGED store
                /\ storeReqs' = [storeReqs EXCEPT ![s] = Responded(hd, 500)]
    /\ StoreFrame

\* POST /users/projects from the answer to the PUT of the project id: a
\* response that is not ok is a warning only; the handler goes on to
\* getUserData(userId); a rejected fetch is answered 500
IdPut(s, result) ==
    /\ storeReqs[s].pc = "puttingId"
    /\ storeReqs' = [storeReqs EXCEPT ![s] =
           IF result = "rejects" THEN Responded(@, 500) ELSE Fetching(@, "readingUser")]
    /\ UNCHANGED store
    /\ StoreFrame

\* DELETE /users/projects/:id from the answer to the deletion of the bin:
\* the store deletes a bin that exists; a response that is not ok is
\* answered 400 and a rejected fetch 500; otherwise the handler goes on to
\* getUserData(userId)
BinDeleted(s, result) ==
    /\ storeReqs[s].pc = "deletingBin"
    /\ result = "ok" => storeReqs[s].project \in store.bins
    /\ LET hd == storeReqs[s]
       IN  IF result = "ok"
           THEN /\ store' = [store EXCEPT !.bins = @ \ {hd.project}]
                /\ storeReqs' = [storeReqs EXCEPT ![s] = Fetching(hd, "readingUser")]
           ELSE /\ UNCHANGED store
                /\ storeReqs' = [storeReqs EXCEPT ![s] =
                       Responded(hd, IF result = "notOk" THEN 400 ELSE 500)]
    /\ StoreFrame

\* the response of a handler whose update of the user's list is over:
\* 201 for POST whether it failed or not, 200 for DELETE, or 500 when it
\* failed
AfterUserUpdate(hd, failed) ==
    Responded(hd, IF hd.req.route = "POST" THEN 201
                  ELSE IF failed THEN 500 ELSE 200)

\* ownedProjects.push(projectId) of POST, and
\* ownedProjects.filter(id => id !== projectId) of DELETE
UpdatedOwnedProjects(hd, ownedProjects) ==
    IF hd.req.route = "POST" THEN Append(ownedProjects, hd.project)
    ELSE SelectSeq(ownedProjects, LAMBDA id : id # hd.project)

\* from the answer of getUserData: users[userId] || null; for a user that
\* the bin does not have the list is left alone; otherwise the handler
\* makes updatedUserData from what it has read and calls updateUserData,
\* which fetches the users bin again
UserRead(s, result) ==
    /\ storeReqs[s].pc = "readingUser"
    /\ LET hd == storeReqs[s]
       IN  storeReqs' = [storeReqs EXCEPT ![s] =
               IF result # "ok" THEN AfterUserUpdate(hd, TRUE)
               ELSE IF hd.req.user \notin DOMAIN store.users
               THEN AfterUserUpdate(hd, FALSE)
               ELSE Fetching([hd EXCEPT !.owned =
                                  UpdatedOwnedProjects(hd, store.users[hd.req.user])],
                             "updateReading")]
    /\ UNCHANGED store
    /\ StoreFrame

\* updateUserData from the answer to its GET: users = usersData.record;
\* users[userId] = updatedUserData; then the PUT of all users
UpdateRead(s, result) ==
    /\ storeReqs[s].pc = "updateReading"
    /\ LET hd == storeReqs[s]
       IN  storeReqs' = [storeReqs EXCEPT ![s] =
               IF result # "ok" THEN AfterUserUpdate(hd, TRUE)
               ELSE Fetching([hd EXCEPT !.users =
                                  [store.users EXCEPT ![hd.req.user] = hd.owned]],
                             "updateWriting")]
    /\ UNCHANGED store
    /\ StoreFrame

\* updateUserData from the answer to its PUT: the store now has the users
\* object of this handler; the handler responds
UpdateWritten(s, result) ==
    /\ storeReqs[s].pc = "updateWriting"
    /\ LET hd == storeReqs[s]
       IN  IF result = "ok"
           THEN /\ store' = [store EXCEPT !.users = hd.users]
                /\ storeReqs' = [storeReqs EXCEPT ![s] =
                       AfterUserUpdate([hd EXCEPT !.wrote = TRUE], FALSE)]
           ELSE /\ UNCHANGED store
                /\ storeReqs' = [storeReqs EXCEPT ![s] = AfterUserUpdate(hd, TRUE)]
    /\ StoreFrame

\* PUT /users/projects/:id from the answer to the PUT of the bin
ProjectPut(s, result) ==
    /\ storeReqs[s].pc = "puttingProject"
    /\ result = "ok" => storeReqs[s].project \in store.bins
    /\ storeReqs' = [storeReqs EXCEPT ![s] =
           Responded(@, IF result = "ok" THEN 200 ELSE 500)]
    /\ UNCHANGED store
    /\ StoreFrame

\* GET /api/users/projects/:id from the answer to the GET of the bin
ProjectGot(s, result) ==
    /\ storeReqs[s].pc = "gettingProject"
    /\ result = "ok" => storeReqs[s].project \in store.bins
    /\ storeReqs' = [storeReqs EXCEPT ![s] =
           Responded(@, IF result = "ok" THEN 200
                        ELSE IF result = "notOk" THEN 404 ELSE 500)]
    /\ UNCHANGED store
    /\ StoreFrame

NextStore ==
    \/ \E file \in ServerFiles : LoadEngine(file)
    \/ Listen
    \/ \E s \in StoreHandlers, req \in StoreRequests : PostProject(s, req)
    \/ \E s \in StoreHandlers, req \in StoreRequests : DeleteProject(s, req)
    \/ \E s \in StoreHandlers, req \in StoreRequests : PutProject(s, req)
    \/ \E s \in StoreHandlers, req \in StoreRequests : GetProject(s, req)
    \/ \E s \in StoreHandlers, result \in FetchResults : BinCreated(s, result)
    \/ \E s \in StoreHandlers, result \in FetchResults : IdPut(s, result)
    \/ \E s \in StoreHandlers, result \in FetchResults : BinDeleted(s, result)
    \/ \E s \in StoreHandlers, result \in FetchResults : UserRead(s, result)
    \/ \E s \in StoreHandlers, result \in FetchResults : UpdateRead(s, result)
    \/ \E s \in StoreHandlers, result \in FetchResults : UpdateWritten(s, result)
    \/ \E s \in StoreHandlers, result \in FetchResults : ProjectPut(s, result)
    \/ \E s \in StoreHandlers, result \in FetchResults : ProjectGot(s, result)

SpecStore == Init /\ [][NextStore]_vars

(***************************************************************************)
(* tokenize on its own.                                                    *)
(***************************************************************************)
TextChars == {"a", "B", "1", " ", "-"}

\* the strings of up to MaxLen characters, undefined and null
Texts == UNION {[1..n -> TextChars] : n \in 0..MaxLen} \cup {Undefined, Null}

InitTokenize ==
    /\ pc = "tokenize"
    /\ records = <<>>
    /\ invertedIndex = << >>
    /\ fieldIndex = << >>
    /\ call = NoArgs
    /\ outcome = NoOutcome
    /\ memo = [call |-> NoArgs, outcome |-> NoOutcome]
    /\ text \in Texts
    /\ tokens = <<>>
    /\ builds = 0
    /\ listening = FALSE
    /\ handlers = [h \in Handlers |-> IdleHandler]
    /\ projectsReq = IdleProjects
    /\ store = InitialStore
    /\ storeReqs = [s \in StoreHandlers |-> IdleStoreHandler]

Tokenize ==
    /\ pc = "tokenize"
    /\ tokens' = tokenize(text)
    /\ pc' = "tokenized"
    /\ UNCHANGED <<records, invertedIndex, fieldIndex, call, outcome, memo, text>>
    /\ UNCHANGED <<builds, httpVars>>

NextTokenize == Tokenize

SpecTokenize == InitTokenize /\ [][NextTokenize]_vars

(***************************************************************************)
(* Properties of one call of query (SpecQuery).                            *)
(***************************************************************************)
Called == outcome.status # "none"
Returned == outcome.status = "returned"

\* the limit and the offset the call runs with
Limit == ParamOrDefault(call.limit, DefaultLimit)
Offset == ParamOrDefault(call.offset, DefaultOffset)
ValidPage == Limit >= 0 /\ Offset >= 0

Ordinals == 0..(Len(records) - 1)
QueryTerms == Range(tokenize(call.q))

Ascending(ids) == \A j, k \in 1..Len(ids) : j < k => ids[j] < ids[k]

\* the records at positions [Offset, Offset + Limit) of the candidate
\* sequence, clipped to its length
PageOfCandidates ==
    LET ids == outcome.candidateIds
        n == Max(0, Min(Limit, Len(ids) - Offset))
    IN  [k \in 1..n |-> records[ids[Offset + k] + 1]]

\* C1 (as stated): for every phrase, filters and non-negative limit and
\* offset, query returns, without an error, exactly the candidates at
\* positions [offset, offset + limit) of the candidate sequence in ascending
\* ordinal, clipped to the available length.
C1_PageOfEveryQuery ==
    (Called /\ ValidPage) =>
        /\ Returned
        /\ Ascending(outcome.candidateIds)
        /\ outcome.results = PageOfCandidates
        /\ Len(outcome.results) <= Limit
        /\ (Limit = 0 \/ Offset >= Len(outcome.candidateIds)) => outcome.results = <<>>

\* C1, the calls that throw: a phrase with the term "constructor", with
\* non-negative limit and offset, ends in a TypeError.
C1_ThrowingCall ==
    /\ outcome.status = "TypeError"
    /\ ValidPage
    /\ call.q = S_constructor
    /\ call.filters = <<>>
    /\ Offset >= Len(records)

\* C1, the calls that return: the page is right whenever query returns.
C1_PageOfReturnedQuery ==
    (Returned /\ ValidPage) =>
        /\ Ascending(outcome.candidateIds)
        /\ outcome.results = PageOfCandidates
        /\ Len(outcome.results) <= Limit
        /\ (Limit = 0 \/ Offset >= Len(outcome.candidateIds)) => outcome.results = <<>>

\* C2 (as stated): with no filters and a phrase of at least one term, a
\* record is a candidate if and only if one of the terms of the phrase is,
\* as a whole token, a token of one of its five searchable fields.
C2_AnyTermMatches ==
    (Called /\ call.filters = <<>> /\ QueryTerms # {}) =>
        \A i \in Ordinals :
            (i \in Range(outcome.candidateIds)) <=>
                (QueryTerms \cap RecordTerms(records[i + 1]) # {})

\* C2, the call that throws: a record with the term "fir" is no candidate of
\* the phrase "fir constructor", because the call ends in a TypeError.
C2_ThrowingCall ==
    /\ outcome.status = "TypeError"
    /\ call.q = S_FirConstructor
    /\ call.filters = <<>>
    /\ \E i \in Ordinals : S_fir \in RecordTerms(records[i + 1])

\* C2, the calls that return: the candidates are the records with any term.
C2_AnyTermMatchesWhenReturned ==
    (Returned /\ call.filters = <<>> /\ QueryTerms # {}) =>
        \A i \in Ordinals :
            (i \in Range(outcome.candidateIds)) <=>
                (QueryTerms \cap RecordTerms(records[i + 1]) # {})

\* the filters without the k-th one
WithoutFilter(filters, k) ==
    [j \in 1..(Len(filters) - 1) |-> IF j < k THEN filters[j] ELSE filters[j + 1]]

\* what the engine of this state does on the call with other filters
OutcomeWithFilters(filters) ==
    QueryOutcome(records, invertedIndex, fieldIndex, [call EXCEPT !.filters = filters])

\* C3: with non-negative limit and offset, a query never delivers more
\* records than the same query without one of its filters.
C3_FilterNeverAddsResults ==
    (Called /\ ValidPage) =>
        \A k \in 1..Len(call.filters) :
            Len(outcome.results) <=
                Len(OutcomeWithFilters(WithoutFilter(call.filters, k)).results)

\* C3: a call with two filters that returns a record, and fewer records
\* than it would without its second filter.
C3_Witness ==
    /\ Returned
    /\ ValidPage
    /\ Len(call.filters) = 2
    /\ Len(outcome.results) >= 1
    /\ Len(outcome.results) <
           Len(OutcomeWithFilters(WithoutFilter(call.filters, 2)).results)

WhitelistedFields == Range(IndexedFields)

\* a string, and the string in lower case and in upper case
CaseVariants(v) == {v, ToLowerCase(v), ToUpperCase(v)}

\* the call has one filter and no phrase
OnlyFilter == Len(call.filters) = 1 /\ ~Truthy(call.q)

\* C4: a query whose one filter is a whitelisted field with the indexed
\* (non-empty) value of a record, as it is in the record or in lower or upper
\* case, returns, and that record is one of its candidates.
C4_IndexedValueIsFound ==
    (Called /\ OnlyFilter) =>
        \A i \in Ordinals :
            LET field == call.filters[1][1]
                v == GetField(records[i + 1], field)
            IN  (/\ field \in WhitelistedFields
                 /\ Truthy(v)
                 /\ call.filters[1][2] \in CaseVariants(v))
                => (Returned /\ i \in Range(outcome.candidateIds))

\* C4: the filter family = "ROSACEAE" finds the record of ordinal 1, whose
\* family is "Rosaceae".
C4_Witness ==
    /\ Returned
    /\ OnlyFilter
    /\ call.filters[1] = <<"family", ToUpperCase(S_Rosaceae)>>
    /\ Len(records) = 2
    /\ records[2]["family"] = S_Rosaceae
    /\ 1 \in Range(outcome.candidateIds)

\* the posting set of (field, key): empty when the key is missing
PostingSet(field, key) ==
    IF field \in DOMAIN fieldIndex /\ key \in DOMAIN fieldIndex[field]
    THEN fieldIndex[field][key]
    ELSE {}

\* the candidates the call has before its filters
TextCandidates == FullTextStage(AllOrdinals(records), invertedIndex, call.q).ids

\* C5 (as stated): the path of a filter depends on the field name alone.
\* A filter on a whitelisted field intersects the candidates with the
\* posting set of (field, normalized value), also when no record has a
\* value for the field; a filter on another field keeps the candidates
\* whose raw field value equals the value.
C5_PathByFieldName ==
    (Returned /\ Len(call.filters) = 1) =>
        LET field == call.filters[1][1]
            value == call.filters[1][2]
        IN  IF field \in WhitelistedFields
            THEN outcome.candidateIds =
                     Intersect(TextCandidates,
                               PostingSet(field, NormalizeFilterValue(value)))
            ELSE outcome.candidateIds =
                     SelectSeq(TextCandidates,
                               LAMBDA i : GetField(records[i + 1], field) = value)

\* C5: the filter family = "" on a collection without any family value
\* returns the record whose family is the empty string.
C5_ScanOfWhitelistedField ==
    /\ Returned
    /\ OnlyFilter
    /\ call.filters[1] = <<"family", <<>>>>
    /\ "family" \notin DOMAIN fieldIndex
    /\ outcome.candidateIds # <<>>

\* C6 (as stated): a call with a negative limit or a negative offset is
\* reported as invalid and returns no result sequence.
C6_NegativePageIsRejected ==
    (Called /\ ~ValidPage) => ~Returned

\* C6: a call with limit -1 returns records.
C6_NegativeLimitReturnsRecords ==
    /\ Returned
    /\ Limit < 0
    /\ outcome.results # <<>>

\* what the engine of this state does on the call with another phrase
OutcomeWithPhrase(q) ==
    QueryOutcome(records, invertedIndex, fieldIndex, [call EXCEPT !.q = q])

\* C7: a phrase that is absent, empty or without any term leaves the
\* candidates as they are: the call does what the same call without a phrase
\* does, and with no filters every record is a candidate.
C7_PhraseWithoutTermsIsNoFilter ==
    (Called /\ tokenize(call.q) = <<>>) =>
        /\ outcome = OutcomeWithPhrase(Null)
        /\ call.filters = <<>> =>
               (Returned /\ outcome.candidateIds = AllOrdinals(records))

\* C7: the phrase "a-b", of two one-character tokens, with no filters on
\* two records: both are candidates.
C7_Witness ==
    /\ Returned
    /\ call.q = S_a_b
    /\ call.filters = <<>>
    /\ Len(records) = 2
    /\ outcome.candidateIds = <<0, 1>>

\* C8 (as stated): whatever the terms of the phrase, the filter fields and
\* the filter values are, query completes and returns a sequence; a phrase
\* of terms that are in no posting set returns no record, and so do a
\* filter on a whitelisted field with a value that is not indexed and a
\* filter on a field outside the whitelist that no record has equal to the
\* value.
C8_UnknownInputsNeverThrow ==
    Called =>
        /\ Returned
        /\ (QueryTerms # {} /\ QueryTerms \cap DOMAIN invertedIndex = {})
               => outcome.results = <<>>
        /\ \A k \in 1..Len(call.filters) :
               (/\ call.filters[k][1] \in WhitelistedFields
                /\ PostingSet(call.filters[k][1],
                              NormalizeFilterValue(call.filters[k][2])) = {})
               => outcome.results = <<>>
        /\ \A k \in 1..Len(call.filters) :
               (/\ call.filters[k][1] \notin WhitelistedFields
                /\ \A i \in Ordinals :
                       GetField(records[i + 1], call.filters[k][1]) # call.filters[k][2])
               => outcome.results = <<>>

\* C8: the phrase "constructor", a term of no record, ends in a TypeError.
C8_UnknownTermThrows ==
    /\ outcome.status = "TypeError"
    /\ call.q = S_constructor
    /\ call.filters = <<>>

\* C8: the unknown value "constructor" of the whitelisted field family ends
\* in a TypeError.
C8_UnknownValueThrows ==
    /\ outcome.status = "TypeError"
    /\ ~Truthy(call.q)
    /\ call.filters = << <<"family", S_constructor>> >>

(***************************************************************************)
(* Properties of tokenize (SpecTokenize).                                  *)
(***************************************************************************)
\* the positions of the text whose lowercased character is in [a-z0-9]
AlnumAt(i) == ToLowerChar(text[i]) \in AlnumLower

\* the first positions of the maximal runs of such characters
RunStarts == {i \in 1..Len(text) : AlnumAt(i) /\ (i = 1 \/ ~AlnumAt(i - 1))}

\* the last position of the run that starts at i
RunEnd(i) ==
    CHOOSE j \in i..Len(text) :
        /\ \A m \in i..j : AlnumAt(m)
        /\ (j = Len(text) \/ ~AlnumAt(j + 1))

\* the runs of two characters or more, lowercased, from left to right
LongRuns ==
    LET starts == AscendingSeq({i \in RunStarts : RunEnd(i) - i + 1 >= 2})
    IN  [k \in 1..Len(starts) |->
            SubSeq(ToLowerCase(text), starts[k], RunEnd(starts[k]))]

\* C9: tokenize returns for every string, and for the empty string,
\* undefined and null; every token has two characters or more, all in
\* [a-z0-9]; the empty string, undefined and null give no token; the tokens
\* are the runs of the text in its order, a repeated one as often as it
\* occurs.
C9_TokenizerTotality ==
    (pc = "tokenized") =>
        /\ \A k \in 1..Len(tokens) :
               Len(tokens[k]) >= 2 /\ Range(tokens[k]) \subseteq AlnumLower
        /\ text \in {Undefined, Null, <<>>} => tokens = <<>>
        /\ IsString(text) => tokens = LongRuns

\* C9: a text with the same token twice: both are returned.
C9_Witness ==
    /\ pc = "tokenized"
    /\ Len(tokens) = 2
    /\ tokens[1] = tokens[2]
    /\ text # ToLowerCase(text)

(***************************************************************************)
(* Properties of several calls of query on one engine (Spec).              *)
(***************************************************************************)
\* C10: a call of query with the arguments of an earlier call on the same
\* engine, whatever was called in between, returns the same records in the
\* same order.
C10_SameQuerySameResult ==
    (memo.outcome.status # "none" /\ memo.call = call) => outcome = memo.outcome

\* C10: the phrase "fir" is asked again, and again returns the two records
\* with that term.
C10_Witness ==
    /\ memo.outcome.status = "returned"
    /\ memo.call = call
    /\ call.q = S_fir
    /\ Len(outcome.results) = 2

(***************************************************************************)
(* Properties of the engine over any number of calls (Spec).               *)
(***************************************************************************)
\* C11: query is read-only: every step taken on an engine, whatever calls
\* of query came before it, leaves the records, the inverted index and the
\* field index as they were; no key is added and no posting set changes.
C11_QueryIsReadOnly ==
    [][pc = "ready" => /\ records' = records
                       /\ invertedIndex' = invertedIndex
                       /\ fieldIndex' = fieldIndex]_vars

\* C11: after two calls, the second for the unknown term "ab", the engine
\* still has the indexes its constructor built, and no key "ab".
C11_Witness ==
    /\ pc = "ready"
    /\ memo.outcome.status # "none"
    /\ call.q = S_ab
    /\ Returned
    /\ S_ab \notin DOMAIN invertedIndex
    /\ invertedIndex = BuildIndexes(records).invertedIndex
    /\ fieldIndex = BuildIndexes(records).fieldIndex
    /\ invertedIndex # << >>

(***************************************************************************)
(* Properties of the server (SpecServer).                                  *)
(***************************************************************************)
\* what a call of query with the arguments passed returns on the engine
\* as its constructor built it from the records, with no other call
AloneOutcome(passed) ==
    LET built == BuildIndexes(records)
    IN  QueryOutcome(records, built.invertedIndex, built.fieldIndex, EngineArgs(passed))

\* C12: queries of different request handlers, interleaved in any way,
\* each deliver what the same query delivers alone on the engine: no
\* query observes an effect of another.
C12_InterleavedQueriesAreIsolated ==
    \A h \in Handlers :
        handlers[h].called =>
            /\ handlers[h].results = AloneOutcome(handlers[h].passed).results
            /\ (handlers[h].status = 200) =
                   (AloneOutcome(handlers[h].passed).status = "returned")

\* C12: a GET /q for the Abies record was answered while a POST /search
\* was waiting for the model; the search then asked for "fir" and was
\* answered with that record.
C12_Witness ==
    \E h, k \in Handlers :
        /\ handlers[h].route = "/search" /\ handlers[h].called
        /\ handlers[k].route = "/q" /\ handlers[k].called
        /\ h \in handlers[k].during
        /\ handlers[k].passed.filters # <<>>
        /\ handlers[h].results = <<Fir>>
        /\ handlers[k].results = <<Fir>>
        /\ handlers[h].passed # handlers[k].passed

\* C13: the indexes are built once, by the constructor, before loadEngine
\* returns; the listener starts only when the engine is loaded; and no
\* request is handled, and no query evaluated, unless the engine exists
\* with the complete indexes of its records.
C13_EngineBuiltOnceBeforeListening ==
    /\ builds <= 1
    /\ (pc = "loading") = (builds = 0 /\ pc # "failed")
    /\ pc = "ready" =>
           /\ builds = 1
           /\ invertedIndex = BuildIndexes(records).invertedIndex
           /\ fieldIndex = BuildIndexes(records).fieldIndex
    /\ listening => pc = "ready"
    /\ \A h \in Handlers : handlers[h].state # "idle" => listening
    /\ Called => pc = "ready"

\* C13: the server listens on an engine of two records, built once, and
\* has answered a query with a record.
C13_Witness ==
    /\ listening
    /\ builds = 1
    /\ Len(records) = 2
    /\ \E h \in Handlers : handlers[h].called /\ handlers[h].results # <<>>

\* C14: a construction that fails (a file that cannot be read, a text
\* that is no JSON, a value or a record that cannot be indexed) leaves no
\* engine, and from then on the server never listens and handles no
\* request.
C14_FailedConstructionIsFailFast ==
    /\ [](pc = "failed" =>
             /\ ~listening
             /\ records = <<>> /\ invertedIndex = << >> /\ fieldIndex = << >>
             /\ \A h \in Handlers : handlers[h] = IdleHandler
             /\ ~Called)
    /\ [][pc = "failed" => pc' = "failed"]_vars

\* C14: the constructor ran and threw; there is no engine and no listener.
C14_Witness ==
    /\ pc = "failed"
    /\ builds = 1
    /\ ~listening

\* the limit and the offset that the GET /q handlers have passed
QPagesPassed ==
    UNION {handlers[h].passed.limit \cup handlers[h].passed.offset :
            h \in {k \in Handlers : handlers[k].route = "/q" /\ handlers[k].called}}

\* C15 (as stated): whatever the raw limit and offset of a GET /q request
\* are (missing, not numeric, negative), the limit and the offset passed
\* to engine.query are integers, and not negative.
C15_PassedPageIsNonNegativeInteger ==
    \A n \in QPagesPassed : ~n.nan /\ n.int >= 0

\* C15: GET /q?limit=-1 passes the limit -1, and GET /q?limit=x passes the
\* limit NaN.
C15_NegativeAndNaNLimitPassed ==
    \E h, k \in Handlers :
        /\ handlers[h].route = "/q" /\ handlers[h].called
        /\ handlers[h].raw.limit = S_minus1
        /\ handlers[h].passed.limit = {Num(0 - 1)}
        /\ handlers[k].route = "/q" /\ handlers[k].called
        /\ handlers[k].raw.limit = S_x
        /\ handlers[k].passed.limit = {NaN}

\* C15, the raw values that are missing, empty or made of decimal digits:
\* for them the value passed is an integer, and not negative.
C15_DecimalPageIsNonNegativeInteger ==
    \A h \in Handlers :
        handlers[h].route = "/q" /\ handlers[h].called =>
            /\ (~Truthy(handlers[h].raw.limit) \/ Range(handlers[h].raw.limit) \subseteq Digits)
                   => \A n \in handlers[h].passed.limit : ~n.nan /\ n.int >= 0
            /\ (~Truthy(handlers[h].raw.offset) \/ Range(handlers[h].raw.offset) \subseteq Digits)
                   => \A n \in handlers[h].passed.offset : ~n.nan /\ n.int >= 0

\* C16 (as stated): every call of engine.query that the request layer
\* makes passes a limit and an offset, so that the engine never puts its
\* own default in their place.
C16_EveryCallPassesPage ==
    \A h \in Handlers :
        handlers[h].called =>
            handlers[h].passed.limit # {} /\ handlers[h].passed.offset # {}

\* C16: POST /search has called engine.query with the phrase alone; the
\* engine ran with its own defaults, limit 20 and offset 0, and the record
\* was delivered.
C16_SearchRunsOnEngineDefaults ==
    \E h \in Handlers :
        /\ handlers[h].route = "/search" /\ handlers[h].called
        /\ handlers[h].passed.limit = {} /\ handlers[h].passed.offset = {}
        /\ call = EngineArgs(handlers[h].passed)
        /\ Limit = DefaultLimit /\ Offset = DefaultOffset
        /\ handlers[h].results = <<Fir>>
        /\ handlers[h].results =
               QueryOutcome(records, invertedIndex, fieldIndex,
                            Args(handlers[h].passed.q, <<>>,
                                 {DefaultLimit}, {DefaultOffset})).results

\* C16, GET /q: its calls pass both, the layer's 20 and 0 when the request
\* has none.
C16_QPassesExplicitPage ==
    \A h \in Handlers :
        handlers[h].route = "/q" /\ handlers[h].called =>
            /\ handlers[h].passed.limit # {} /\ handlers[h].passed.offset # {}
            /\ ~Truthy(handlers[h].raw.limit) =>
                   handlers[h].passed.limit = {Num(RequestDefaultLimit)}
            /\ ~Truthy(handlers[h].raw.offset) =>
                   handlers[h].passed.offset = {Num(RequestDefaultOffset)}

(***************************************************************************)
(* Properties of the indexes of an engine (Spec).                          *)
(***************************************************************************)
\* the posting sets of the inverted index and of the field index
PostingSets ==
    {invertedIndex[t] : t \in DOMAIN invertedIndex}
    \cup UNION {{fieldIndex[f][k] : k \in DOMAIN fieldIndex[f]} : f \in DOMAIN fieldIndex}

\* C17: every ordinal of a posting set of either index is an integer i
\* with 0 <= i < number of records, and no posting set that is stored is
\* empty.
C17_PostingsAreOrdinalsAndNotEmpty ==
    pc = "ready" =>
        \A ids \in PostingSets :
            /\ ids # {}
            /\ \A i \in ids : i \in Int /\ 0 <= i /\ i < Len(records)

\* C17: an engine of two records with a posting set of both ordinals in
\* the field index and one of the last ordinal alone in the inverted index.
C17_Witness ==
    /\ pc = "ready"
    /\ Len(records) = 2
    /\ \E f \in DOMAIN fieldIndex : \E k \in DOMAIN fieldIndex[f] :
           fieldIndex[f][k] = {0, 1}
    /\ \E t \in DOMAIN invertedIndex : invertedIndex[t] = {1}

\* the terms of the claim: the keys of the inverted index, every token of
\* any field of any record, and a term of no record
TermsOfInterest ==
    DOMAIN invertedIndex
    \cup UNION {Range(tokenize(GetField(records[n], f))) :
                    n \in 1..Len(records), f \in RecordFields}
    \cup {S_ab}

\* the posting set of a term: empty when the index has no such key
PostingOfTerm(t) == IF t \in DOMAIN invertedIndex THEN invertedIndex[t] ELSE {}

KeysOfInterest ==
    UNION {DOMAIN fieldIndex[f] : f \in DOMAIN fieldIndex}
    \cup UNION {{GetField(records[n], f), ToLowerCase(GetField(records[n], f))} :
                    n \in 1..Len(records), f \in RecordFields}
    \cup {<<>>}

\* the posting set of a field and a key: empty when the index has none
PostingOfKey(f, k) ==
    IF f \in DOMAIN fieldIndex /\ k \in DOMAIN fieldIndex[f] THEN fieldIndex[f][k] ELSE {}

C20_ReturnedHandlerHasResponded ==
    projectsReq.pc = "returned" => projectsReq.status # 0

\* C20: the handler has returned for the user "bob", who is no key of the
\* record of the users bin, and has sent no response.
C20_UnknownUserIsLeftUnanswered ==
    /\ projectsReq.pc = "returned"
    /\ projectsReq.userId = "bob"
    /\ DOMAIN projectsReq.record = {"alice"}
    /\ projectsReq.status = 0

\* C20, the handler itself: every request is handled to its end.
C20_HandlerReturns ==
    (projectsReq.pc # "idle") ~> (projectsReq.pc = "returned")

\* C20, the other requests: a handler that has returned has answered,
\* unless the user id is no key of the record.
C20_KnownUserIsAnswered ==
    projectsReq.pc = "returned" /\ projectsReq.status = 0 =>
        /\ projectsReq.userId \in UserIds
        /\ projectsReq.userId \notin DOMAIN projectsReq.record

(***************************************************************************)
(* Properties of the routes of the project bins (SpecStore).               *)
(***************************************************************************)
\* the handlers whose request has no Bearer token that verifies
Unauthenticated ==
    {s \in StoreHandlers : storeReqs[s].pc # "idle" /\ storeReqs[s].req.header # "bearerValid"}

\* C21: on POST /users/projects, PUT and DELETE /users/projects/:id and
\* GET /api/users/projects/:id, a request whose Authorization header is
\* missing, is no Bearer header or has a token that does not verify is
\* answered 401 and has made no call to the document store; while no other
\* request has been made the store is as it was.
C21_AuthenticationGatesStorage ==
    /\ \A s \in Unauthenticated :
           /\ storeReqs[s].pc = "returned"
           /\ storeReqs[s].status = 401
           /\ storeReqs[s].calls = 0
    /\ (\A s \in StoreHandlers : storeReqs[s].pc = "idle" \/ s \in Unauthenticated)
           => store = InitialStore

\* C21: a DELETE of p1 with a token that does not verify and a POST with a
\* header that is no Bearer header were both answered 401; the bin p1 is
\* still there and no bin was created.
C21_Witness ==
    \E s, t \in StoreHandlers :
        /\ storeReqs[s].req.route = "DELETE" /\ storeReqs[s].req.header = "bearerInvalid"
        /\ storeReqs[s].status = 401 /\ storeReqs[s].calls = 0
        /\ storeReqs[t].req.route = "POST" /\ storeReqs[t].req.header = "notBearer"
        /\ storeReqs[t].status = 401 /\ storeReqs[t].calls = 0
        /\ "p1" \in store.bins
        /\ store.created = 0

\* the change of handler s is in the users bin: the project it created is
\* in the list of its user, the project it deleted is not
ChangeIsInUsersBin(s) ==
    LET hd == storeReqs[s]
        list == Range(store.users[hd.req.user])
    IN  /\ hd.req.route = "POST" => hd.project \in list
        /\ hd.req.route = "DELETE" => hd.project \notin list

\* the handler has finished a creation or a deletion, and each of its
\* reads and writes of the users bin succeeded
ChangedUsersBin(s) ==
    /\ storeReqs[s].pc = "returned"
    /\ storeReqs[s].req.route \in {"POST", "DELETE"}
    /\ storeReqs[s].wrote

\* C22 (as stated): when two requests that create or delete a project have
\* both finished, and every read and write of the users bin succeeded, the
\* users bin has both changes.
C22_NoLostUpdates ==
    (\A s \in StoreHandlers : ChangedUsersBin(s))
        => \A s \in StoreHandlers : ChangeIsInUsersBin(s)

\* C22: alice and bob have each created a project, both were answered 201
\* and both wrote the users bin; the project of one of them is in no list.
C22_CreatedProjectIsLost ==
    \E s, t \in StoreHandlers :
        /\ ChangedUsersBin(s) /\ ChangedUsersBin(t)
        /\ storeReqs[s].req = StoreRequest("POST", "bearerValid", "alice", "")
        /\ storeReqs[t].req = StoreRequest("POST", "bearerValid", "bob", "")
        /\ storeReqs[s].status = 201 /\ storeReqs[t].status = 201
        /\ storeReqs[s].project \in store.bins
        /\ storeReqs[t].project \in Range(store.users["bob"])
        /\ \A u \in DOMAIN store.users : storeReqs[s].project \notin Range(store.users[u])

\* C22, one request at a time: the change of a request that ran while no
\* other request was being handled is in the users bin when it returns.
C22_LoneChangeIsKept ==
    \A s \in StoreHandlers :
        (ChangedUsersBin(s) /\ \A t \in StoreHandlers \ {s} : storeReqs[t].pc = "idle")
            => ChangeIsInUsersBin(s)

(***************************************************************************)
(* Relations between calls of query (SpecQuery).                           *)
(***************************************************************************)
\* the filters objects with the same pairs in another insertion order
Reorderings(filters) ==
    LET n == Len(filters)
    IN  {[k \in 1..n |-> filters[perm[k]]] :
            perm \in {f \in [1..n -> 1..n] : \A j, k \in 1..n : f[j] = f[k] => j = k}}

\* C23 (as stated): for every engine, phrase, limit and offset, two
\* filters objects with the same (field, value) pairs in different
\* insertion orders give the same outcome: the same result sequence.
C23_FilterOrderIsIrrelevant ==
    Called =>
        \A filters \in Reorderings(call.filters) :
            /\ OutcomeWithFilters(filters).status = outcome.status
            /\ OutcomeWithFilters(filters).results = outcome.results

\* C23: with the filters family = "constructor", plant_id = "1" in this
\* order the call ends in a TypeError; with plant_id first, which leaves
\* no candidate, the same call returns the empty sequence.
C23_OneOrderThrows ==
    /\ call.filters = << <<"family", S_constructor>>, <<"plant_id", S_1>> >>
    /\ outcome.status = "TypeError"
    /\ OutcomeWithFilters(<< <<"plant_id", S_1>>, <<"family", S_constructor>> >>)
           = [status |-> "returned", candidateIds |-> <<>>, results |-> <<>>]

\* C23, the calls that return: any two orders that both return give the
\* same candidates, in ascending ordinal, and the same results.
C23_FilterOrderIsIrrelevantWhenReturned ==
    Returned =>
        /\ Ascending(outcome.candidateIds)
        /\ \A filters \in Reorderings(call.filters) :
               OutcomeWithFilters(filters).status = "returned" =>
                   /\ OutcomeWithFilters(filters).candidateIds = outcome.candidateIds
                   /\ OutcomeWithFilters(filters).results = outcome.results

\* what the engine of this state does on the call with another page
OutcomeWithPage(limit, offset) ==
    QueryOutcome(records, invertedIndex, fieldIndex,
                 [call EXCEPT !.limit = {limit}, !.offset = {offset}])

RECURSIVE PagesFrom(_, _)
\* the results of the calls at offsets k * limit, (k + 1) * limit, ... up
\* to the first call that returns no record, or does not return
PagesFrom(limit, k) ==
    LET page == OutcomeWithPage(limit, k * limit)
    IN  IF page.status # "returned" \/ page.results = <<>> THEN <<>>
        ELSE page.results \o PagesFrom(limit, k + 1)

\* the pages of limit records are, one after the other, the records of the
\* candidates, each once and in ascending ordinal, and are what the call
\* with offset 0 and the number of records as limit returns
PagesArePartition(limit) ==
    LET whole == OutcomeWithPage(Len(records), 0)
    IN  /\ whole.status = "returned"
        /\ Ascending(whole.candidateIds)
        /\ whole.results = [k \in 1..Len(whole.candidateIds) |->
                                records[whole.candidateIds[k] + 1]]
        /\ PagesFrom(limit, 0) = whole.results

\* C24 (as stated): for every engine, phrase, filters and limit L >= 1,
\* the results of query at offsets 0, L, 2L, ... up to the first empty
\* page are, one after the other, every candidate once and in ascending
\* ordinal, and equal the result of the one query with offset 0 and the
\* number of records as limit.
C24_PagesPartitionCandidates ==
    (Called /\ Limit >= 1) => PagesArePartition(Limit)

\* C24: for the phrase "constructor" and the filter family = "Rosaceae",
\* with limit 1, no page is returned: the call at offset 0 and the call
\* for all records at once end in a TypeError.
C24_NoPageIsReturned ==
    /\ call.q = S_constructor
    /\ call.filters = << <<"family", S_Rosaceae>> >>
    /\ call.limit = {1} /\ call.offset = {0}
    /\ outcome.status = "TypeError"
    /\ OutcomeWithPage(Len(records), 0).status = "TypeError"
    /\ PagesFrom(1, 0) = <<>>
    /\ Len(records) = 2

\* C24, the calls that return: the pages partition the candidates.
C24_PagesPartitionWhenReturned ==
    (Returned /\ Limit >= 1) => PagesArePartition(Limit)

\* C24, a call that returns: with limit 1 the two candidates come in two
\* pages of one record each, before the empty page.
C24_TwoPagesOfOneRecord ==
    /\ Returned
    /\ call.limit = {1}
    /\ Len(outcome.candidateIds) = 2
    /\ PagesFrom(1, 0) = <<records[1], records[2]>>

====
